---- MODULE Spec2Model ----
(***************************************************************************)
(* A model of the seclang rule engine core: the deny action, the phased    *)
(* transaction engine and its chains, the rx operator and the macro        *)
(* expander.                                                               *)
(***************************************************************************)
EXTENDS Integers, Sequences, FiniteSets, TLC

VARIABLES
    \* ---- transaction engine ----
    rules,          \* the compiled Rule Set: a sequence of chains, a chain a sequence of links
    lastPhase,      \* the last phase processed on the transaction (0 = none)
    stage,          \* "compiling" the Rule Set, then the transaction "open", then "closed"
    interruption,   \* tx.interruption (NoInterruption = nil)
    evaluated,      \* history: the links evaluated, in order, as <<rule index, link index>>
    executed,       \* history: the actions executed, in order, as <<rule, link, action index>>
    fired,          \* history: the interruptions created by disruptive actions, in order
    intrAt,         \* history: Len(evaluated) when the interruption became present
    \* ---- deny action alone ----
    denyRule,       \* the RuleMetadata handed to denyFn.Evaluate
    denyTx,         \* the interruption held by the transaction
    denyCreated,    \* the Interruption deny handed to tx.Interrupt
    denyDone,       \* Evaluate has run
    \* ---- rx operator: construction ----
    rxArgs,         \* options.Arguments, a byte string
    rxNoMultiline,  \* shouldNotUseMultilineRegexesOperatorByDefault (a build constant)
    rxOp,           \* the operator newRX returned (NoOperator before the call)
    rxMemo,         \* the keys memoize.Do holds
    \* ---- rx operator: evaluation ----
    rxEngine,       \* "rx" or "binaryRX"
    txCapturing,    \* tx.Capturing()
    captures,       \* the Capture State, slots 0..9
    capturesBefore, \* history: the Capture State before the last Evaluate
    rxMatch,        \* the submatches the engine finds for the last value (<<>> = no match)
    rxResult,       \* what the last Evaluate returned
    rxCalls,        \* Evaluate calls so far
    \* ---- macro expander ----
    template,       \* the data handed to NewMacro, a sequence of characters
    macro,          \* what NewMacro returned: the macro or the error (NoMacro before the call)
    txTX,           \* the transaction's TX collection: lower-case key -> values
    expanded,       \* what the last Expand returned
    warnings,       \* the diagnostics the debug logger received, in order
    expandCalls,    \* Expand calls so far
    \* ---- one compiled macro shared by several transactions ----
    shMacro,        \* the compiled macro of the Rule Set
    shTx,           \* each transaction's TX collection
    shPos,          \* each transaction's Expand call: 0 = not in a call, k = about to write token k
    shBuilder,      \* the strings.Builder values, by builder
    shReturned,     \* what each transaction's last Expand returned
    shWarned,       \* diagnostics each transaction's debug logger received
    shCalls,        \* Expand calls each transaction completed
    \* ---- directive parser: Include ----
    incFiles,       \* the files the parser can look up: name -> directives, line by line
    incStack,       \* the FromFile calls in progress, innermost last, each with its next line
    incCount,       \* p.includeCount: the Include expansions the parser has performed
    incStatus,      \* "idle", "parsing", "ok", or the error the parse failed with
    \* ---- operator registry ----
    operators,      \* the operator registry: name -> factory
    opLatest,       \* history: the factory of the most recent Register call, by name
    opLast,         \* the last call on the registry and what it returned
    opCalls,        \* Register calls made after the init functions
    \* ---- Named Collection and its names view ----
    ncData,         \* Map.data of the Named Collection: stored key -> entries (key, value)
    ncOrder,        \* history: the stored keys, in the order they were first added
    ncLast,         \* the last call and, for a find on the names view, the records it returned
    ncAdds          \* Add calls so far

engineVars == <<rules, stage, lastPhase, interruption, evaluated, executed, fired, intrAt>>
denyVars == <<denyRule, denyTx, denyCreated, denyDone>>
rxNewVars == <<rxArgs, rxNoMultiline, rxOp, rxMemo>>
rxEvalVars == <<rxEngine, txCapturing, captures, capturesBefore, rxMatch, rxResult, rxCalls>>
macroVars == <<template, macro, txTX, expanded, warnings, expandCalls>>
sharedVars == <<shMacro, shTx, shPos, shBuilder, shReturned, shWarned, shCalls>>
includeVars == <<incFiles, incStack, incCount, incStatus>>
registryVars == <<operators, opLatest, opLast, opCalls>>
namesVars == <<ncData, ncOrder, ncLast, ncAdds>>
vars == <<engineVars, denyVars, rxNewVars, rxEvalVars, macroVars, sharedVars, includeVars, registryVars, namesVars>>
notEngine == <<denyVars, rxNewVars, rxEvalVars, macroVars, sharedVars, includeVars, registryVars, namesVars>>
notDeny == <<engineVars, rxNewVars, rxEvalVars, macroVars, sharedVars, includeVars, registryVars, namesVars>>
notRxNew == <<engineVars, denyVars, rxEvalVars, macroVars, sharedVars, includeVars, registryVars, namesVars>>
notRxEval == <<engineVars, denyVars, rxNewVars, macroVars, sharedVars, includeVars, registryVars, namesVars>>
notMacro == <<engineVars, denyVars, rxNewVars, rxEvalVars, sharedVars, includeVars, registryVars, namesVars>>
notShared == <<engineVars, denyVars, rxNewVars, rxEvalVars, macroVars, includeVars, registryVars, namesVars>>
notInclude == <<engineVars, denyVars, rxNewVars, rxEvalVars, macroVars, sharedVars, registryVars, namesVars>>
notRegistry == <<engineVars, denyVars, rxNewVars, rxEvalVars, macroVars, sharedVars, includeVars, namesVars>>
notNames == <<engineVars, denyVars, rxNewVars, rxEvalVars, macroVars, sharedVars, includeVars, registryVars>>

(***************************************************************************)
(* Bounds                                                                  *)
(***************************************************************************)
MaxLinks == 3       \* links (chain heads and chained rules) in a Rule Set
MaxID == 3          \* rule IDs drawn for the deny action alone
MaxPatLen == 5      \* bytes in an rx argument
MaxGroups == 11     \* submatches (group 0 included) of one match
MaxEvals == 2       \* Evaluate calls on one transaction
MaxPieces == 4      \* pieces a macro template is put together from
MaxExpands == 2     \* Expand calls on one macro
MaxParts == 3       \* parts (references and literals) of a shared macro's template
MaxLines == 2       \* directives in one file of an enumerated include graph
MaxRegisters == 3   \* Register calls after the init functions
MaxAdds == 3        \* Add calls on one Named Collection

(***************************************************************************)
(* The deny action (package actions)                                       *)
(***************************************************************************)
noID == 0
noStatus == 0
StatusForbidden == 403

NoInterruption == [Status |-> 0, RuleID |-> 0, Action |-> "nil"]

\* tx.Interrupt: the first interruption handed to the transaction stays.
Interrupt(cur, it) == IF cur = NoInterruption THEN it ELSE cur

denyRuleID_NoFallback(r) == r.ID
denyRuleID_AlwaysParent(r) == IF r.ParentID # noID THEN r.ParentID ELSE r.ID

denyRuleID(r) == IF r.ID = noID THEN r.ParentID ELSE r.ID

denyStatus_NoDefault(r) == r.Status

denyStatus(r) == IF r.Status = noStatus THEN StatusForbidden ELSE r.Status

denyInterruption(r) ==
    [Status |-> denyStatus(r), RuleID |-> denyRuleID(r), Action |-> "deny"]

denyEvaluate_Overwrite(r, cur) == denyInterruption(r)
denyEvaluate_NoInterrupt(r, cur) == cur

denyEvaluate(r, cur) == Interrupt(cur, denyInterruption(r))

(***************************************************************************)
(* The Rule Set                                                            *)
(***************************************************************************)
Phases == 1..5
PhaseLogging == 5

\* what a rule statement can declare: its runtime actions and its status
HeadKinds ==
    { [actions |-> <<"log">>, Status |-> 0],
      [actions |-> <<"deny", "log">>, Status |-> 0] }
ChildKinds ==
    { [actions |-> <<"log">>, Status |-> 0],
      [actions |-> <<"deny", "log">>, Status |-> 0],
      [actions |-> <<"deny", "log">>, Status |-> 500] }

\* a chain head as statement number i of the source: it carries the rule ID
HeadLinks(i) ==
    { [ID |-> i, ParentID |-> noID, Status |-> k.Status, Phase |-> p,
       matches |-> m, actions |-> k.actions] :
        k \in HeadKinds, p \in Phases, m \in BOOLEAN }

\* a chained rule has no ID of its own and inherits the phase of its head
ChildLinks(head) ==
    { [ID |-> noID, ParentID |-> head.ID, Status |-> k.Status, Phase |-> head.Phase,
       matches |-> m, actions |-> k.actions] :
        k \in ChildKinds, m \in BOOLEAN }

RECURSIVE NumLinks(_)
NumLinks(rs) == IF rs = <<>> THEN 0 ELSE Len(Head(rs)) + NumLinks(Tail(rs))

\* a rule statement that is not chained to the one before it: a new top-level rule
ParseRule ==
    /\ stage = "compiling"
    /\ NumLinks(rules) < MaxLinks
    /\ \E h \in HeadLinks(Len(rules) + 1) : rules' = Append(rules, <<h>>)
    /\ UNCHANGED <<stage, lastPhase, interruption, evaluated, executed, fired, intrAt, notEngine>>

\* a rule statement that follows one with the chain action: a child of the last chain
ParseChainedRule ==
    /\ stage = "compiling"
    /\ NumLinks(rules) < MaxLinks
    /\ rules # <<>>
    /\ LET n == Len(rules)
       IN \E c \in ChildLinks(rules[n][1]) :
            rules' = [rules EXCEPT ![n] = Append(@, c)]
    /\ UNCHANGED <<stage, lastPhase, interruption, evaluated, executed, fired, intrAt, notEngine>>

\* waf.NewTransaction: the Rule Set is read-only from here on
NewTransaction ==
    /\ stage = "compiling"
    /\ rules # <<>>
    /\ stage' = "open"
    /\ UNCHANGED <<rules, lastPhase, interruption, evaluated, executed, fired, intrAt, notEngine>>

\* SecAction "id:1,deny,log,phase:1"
TestInterruptionRules ==
    << << [ID |-> 1, ParentID |-> noID, Status |-> 0, Phase |-> 1,
           matches |-> TRUE, actions |-> <<"deny", "log">>] >> >>

(***************************************************************************)
(* The transaction engine                                                  *)
(***************************************************************************)
RECURSIVE runActions(_, _, _, _, _)
\* the actions of one link, in declared order, from action k on
runActions(r, ri, li, k, st) ==
    IF k > Len(r.actions) THEN st
    ELSE LET a == r.actions[k]
             st1 == IF a = "deny"
                    THEN [st EXCEPT !.intr = denyEvaluate(r, st.intr),
                                    !.fired = Append(@, [ri |-> ri, rule |-> r,
                                                         intr |-> denyInterruption(r)])]
                    ELSE st
             st2 == [st1 EXCEPT !.executed = Append(@, <<ri, li, k>>)]
         IN runActions(r, ri, li, k + 1, st2)

RECURSIVE chainActions(_, _, _, _)
\* the actions of every link of a chain that matched as a whole, head first
chainActions(chain, ri, li, st) ==
    IF li > Len(chain) THEN st
    ELSE chainActions(chain, ri, li + 1, runActions(chain[li], ri, li, 1, st))

RECURSIVE matchChain(_, _, _, _)
\* link li is evaluated only when every link before it matched
matchChain(chain, ri, li, st) ==
    IF li > Len(chain) THEN chainActions(chain, ri, 1, st)
    ELSE LET st1 == [st EXCEPT !.evaluated = Append(@, <<ri, li>>)]
         IN IF chain[li].matches THEN matchChain(chain, ri, li + 1, st1) ELSE st1

evalRule(chain, ri, st) ==
    LET st1 == matchChain(chain, ri, 1, st)
    IN IF st.intr = NoInterruption /\ st1.intr # NoInterruption
       THEN [st1 EXCEPT !.intrAt = Len(st1.evaluated)]
       ELSE st1

RECURSIVE evalPhase(_, _, _)
\* the rules of phase p in declared order, from rule ri on
evalPhase(p, ri, st) ==
    IF ri > Len(rules) THEN st
    ELSE IF st.intr # NoInterruption /\ p # PhaseLogging THEN st
    ELSE IF rules[ri][1].Phase # p THEN evalPhase(p, ri + 1, st)
    ELSE evalPhase(p, ri + 1, evalRule(rules[ri], ri, st))

txState ==
    [intr |-> interruption, evaluated |-> evaluated, executed |-> executed,
     fired |-> fired, intrAt |-> intrAt]

ProcessPhase(p) ==
    /\ stage = "open"
    /\ lastPhase = p - 1
    /\ LET st == evalPhase(p, 1, txState)
       IN /\ interruption' = st.intr
          /\ evaluated' = st.evaluated
          /\ executed' = st.executed
          /\ fired' = st.fired
          /\ intrAt' = st.intrAt
    /\ lastPhase' = p
    /\ UNCHANGED <<rules, stage, notEngine>>

ProcessRequestHeaders == ProcessPhase(1)
ProcessRequestBody == ProcessPhase(2)
ProcessResponseHeaders == ProcessPhase(3)
ProcessResponseBody == ProcessPhase(4)
ProcessLogging == ProcessPhase(5)

Close ==
    /\ stage = "open"
    /\ stage' = "closed"
    /\ UNCHANGED <<rules, lastPhase, interruption, evaluated, executed, fired, intrAt, notEngine>>

DenyIdle ==
    /\ denyRule = [ID |-> 0, ParentID |-> 0, Status |-> 0]
    /\ denyTx = NoInterruption
    /\ denyCreated = NoInterruption
    /\ denyDone = FALSE

NoOperator == [engine |-> "nil", pattern |-> <<>>]
Slots == 0..9
NoCaptures == [i \in Slots |-> <<>>]

RxNewIdle ==
    /\ rxArgs = <<>>
    /\ rxNoMultiline = FALSE
    /\ rxOp = NoOperator
    /\ rxMemo = {}

RxEvalIdle ==
    /\ rxEngine = "nil"
    /\ txCapturing = FALSE
    /\ captures = NoCaptures
    /\ capturesBefore = NoCaptures
    /\ rxMatch = <<>>
    /\ rxResult = FALSE
    /\ rxCalls = 0

NoMacro == [err |-> "not compiled", original |-> <<>>, tokens |-> <<>>]

MacroIdle ==
    /\ template = <<>>
    /\ macro = NoMacro
    /\ txTX = <<>>
    /\ expanded = <<>>
    /\ warnings = <<>>
    /\ expandCalls = 0

SharedIdle ==
    /\ shMacro = NoMacro
    /\ shTx = <<>>
    /\ shPos = <<>>
    /\ shBuilder = <<>>
    /\ shReturned = <<>>
    /\ shWarned = <<>>
    /\ shCalls = <<>>

IncludeIdle ==
    /\ incFiles = <<>>
    /\ incStack = <<>>
    /\ incCount = 0
    /\ incStatus = "idle"

RegistryIdle ==
    /\ operators = <<>>
    /\ opLatest = <<>>
    /\ opLast = [call |-> "none", name |-> "", factory |-> "", err |-> ""]
    /\ opCalls = 0

NamesIdle ==
    /\ ncData = <<>>
    /\ ncOrder = <<>>
    /\ ncLast = [call |-> "none", keys |-> {}, found |-> <<>>]
    /\ ncAdds = 0

EngineIdle ==
    /\ rules = <<>>
    /\ stage = "compiling"
    /\ lastPhase = 0
    /\ interruption = NoInterruption
    /\ evaluated = <<>>
    /\ executed = <<>>
    /\ fired = <<>>
    /\ intrAt = 0

Init ==
    /\ MacroIdle
    /\ EngineIdle
    /\ NamesIdle
    /\ RegistryIdle
    /\ IncludeIdle
    /\ SharedIdle
    /\ DenyIdle
    /\ RxNewIdle
    /\ RxEvalIdle

Next ==
    \/ ParseRule
    \/ ParseChainedRule
    \/ NewTransaction
    \/ ProcessRequestHeaders
    \/ ProcessRequestBody
    \/ ProcessResponseHeaders
    \/ ProcessResponseBody
    \/ ProcessLogging
    \/ Close

Spec == Init /\ [][Next]_vars

(***************************************************************************)
(* The deny action alone, on every rule metadata                           *)
(***************************************************************************)
Statuses == {noStatus, 302, StatusForbidden, 500}

\* an interruption an earlier disruptive action left on the transaction
EarlierInterruption == [Status |-> 302, RuleID |-> MaxID + 1, Action |-> "redirect"]

InitDeny ==
    /\ MacroIdle
    /\ EngineIdle
    /\ NamesIdle
    /\ RegistryIdle
    /\ IncludeIdle
    /\ SharedIdle
    /\ RxNewIdle
    /\ RxEvalIdle
    /\ denyRule \in [ID : 0..MaxID, ParentID : 0..MaxID, Status : Statuses]
    /\ denyTx \in {NoInterruption, EarlierInterruption}
    /\ denyCreated = NoInterruption
    /\ denyDone = FALSE

DenyEvaluate ==
    /\ ~denyDone
    /\ denyCreated' = denyInterruption(denyRule)
    /\ denyTx' = denyEvaluate(denyRule, denyTx)
    /\ denyDone' = TRUE
    /\ UNCHANGED <<denyRule, notDeny>>

NextDeny == DenyEvaluate

SpecDeny == InitDeny /\ [][NextDeny]_vars

(***************************************************************************)
(* The rx operator: newRX, newBinaryRX, matchesArbitraryBytes              *)
(***************************************************************************)
\* bytes of the pattern text
Backslash == 92
LetterX == 120
PrefixDotAll == <<40, 63, 115, 41>>                 \* "(?s)"
PrefixDotAllMultiline == <<40, 63, 115, 109, 41>>   \* "(?sm)"

\* the bytes rx arguments are drawn from: \ x F 8 and the raw byte 0xC2
PatternBytes == {Backslash, LetterX, 70, 56, 194}

RECURSIVE BytesUpTo(_)
BytesUpTo(n) ==
    IF n = 0 THEN {<<>>}
    ELSE LET shorter == BytesUpTo(n - 1)
         IN shorter \cup { Append(b, c) : b \in {x \in shorter : Len(x) = n - 1}, c \in PatternBytes }

\* strconv's unhex: the value of a hex digit, -1 for any other byte
unhex(c) ==
    IF c >= 48 /\ c <= 57 THEN c - 48
    ELSE IF c >= 97 /\ c <= 102 THEN c - 97 + 10
    ELSE IF c >= 65 /\ c <= 70 THEN c - 65 + 10
    ELSE -1

\* strconv.UnquoteChar(s, 0) for s = \xHH...: the byte, or -1 for a syntax error
UnquoteHexByte(h1, h2) ==
    IF unhex(h1) < 0 \/ unhex(h2) < 0 THEN -1 ELSE unhex(h1) * 16 + unhex(h2)

IsCont(b) == b >= 128 /\ b <= 191

RECURSIVE utf8Valid(_, _)
\* unicode/utf8.Valid on the bytes of b from position i (1-based) on
utf8Valid(b, i) ==
    IF i > Len(b) THEN TRUE
    ELSE LET c == b[i]
             n == Len(b) - i      \* bytes after c
         IN IF c < 128 THEN utf8Valid(b, i + 1)
            ELSE IF c >= 194 /\ c <= 223
                 THEN n >= 1 /\ IsCont(b[i + 1]) /\ utf8Valid(b, i + 2)
            ELSE IF c >= 224 /\ c <= 239
                 THEN /\ n >= 2
                      /\ b[i + 1] >= (IF c = 224 THEN 160 ELSE 128)
                      /\ b[i + 1] <= (IF c = 237 THEN 159 ELSE 191)
                      /\ IsCont(b[i + 2])
                      /\ utf8Valid(b, i + 3)
            ELSE IF c >= 240 /\ c <= 244
                 THEN /\ n >= 3
                      /\ b[i + 1] >= (IF c = 240 THEN 144 ELSE 128)
                      /\ b[i + 1] <= (IF c = 244 THEN 143 ELSE 191)
                      /\ IsCont(b[i + 2])
                      /\ IsCont(b[i + 3])
                      /\ utf8Valid(b, i + 4)
            ELSE FALSE

RECURSIVE decodeFrom(_, _, _)
\* the loop of matchesArbitraryBytes; i is the 1-based index of expr[i-1]
decodeFrom(expr, i, decoded) ==
    IF i > Len(expr) THEN decoded
    ELSE LET c == expr[i]
         IN IF c # Backslash THEN decodeFrom(expr, i + 1, Append(decoded, c))
            ELSE IF i + 2 >= Len(expr)          \* i+3 >= len(expr), 0-based
                 THEN decoded \o SubSeq(expr, i, Len(expr))
            ELSE IF expr[i + 1] # LetterX THEN decodeFrom(expr, i + 1, Append(decoded, c))
            ELSE LET v == UnquoteHexByte(expr[i + 2], expr[i + 3])
                 IN IF v < 0 THEN decodeFrom(expr, i + 1, Append(decoded, c))
                    ELSE decodeFrom(expr, i + 4, Append(decoded, v))

matchesArbitraryBytes(expr) == ~utf8Valid(decodeFrom(expr, 1, <<>>), 1)

\* newBinaryRX: compiles options.Arguments with binaryregexp
newBinaryRX(arguments) == [engine |-> "binaryRX", pattern |-> arguments]

rxData(arguments, noMultiline) ==
    (IF noMultiline THEN PrefixDotAll ELSE PrefixDotAllMultiline) \o arguments

\* newRX: the operator it returns; whether the library accepts the pattern is not modelled
newRX(arguments, noMultiline) ==
    LET data == rxData(arguments, noMultiline)
    IN IF matchesArbitraryBytes(data) THEN newBinaryRX(arguments)
       ELSE [engine |-> "rx", pattern |-> data]

InitRxNew ==
    /\ MacroIdle
    /\ EngineIdle
    /\ NamesIdle
    /\ RegistryIdle
    /\ IncludeIdle
    /\ SharedIdle
    /\ DenyIdle
    /\ RxEvalIdle
    /\ rxArgs \in BytesUpTo(MaxPatLen)
    /\ rxNoMultiline \in BOOLEAN
    /\ rxOp = NoOperator
    /\ rxMemo = {}

\* Get("rx") + newRX(options): memoize.Do keeps the compiled pattern under its text
NewRX ==
    /\ rxOp = NoOperator
    /\ rxOp' = newRX(rxArgs, rxNoMultiline)
    /\ rxMemo' = rxMemo \cup {rxOp'.pattern}
    /\ UNCHANGED <<rxArgs, rxNoMultiline, notRxNew>>

NextRxNew == NewRX

SpecRxNew == InitRxNew /\ [][NextRxNew]_vars

(***************************************************************************)
(* The rx operator: Evaluate                                               *)
(***************************************************************************)
\* tx.CaptureField(index, value)
CaptureField(caps, i, c) == [caps EXCEPT ![i] = c]

RECURSIVE rxCapture_OffByOne(_, _, _)
rxCapture_OffByOne(match, i, caps) ==
    IF i >= Len(match) THEN caps
    ELSE IF i = 10 THEN caps
    ELSE rxCapture_OffByOne(match, i + 1, CaptureField(caps, i, match[i + 1]))

RECURSIVE rxCapture(_, _, _)
\* rx.Evaluate's loop over the submatches, from (0-based) index i on
rxCapture(match, i, caps) ==
    IF i >= Len(match) THEN caps
    ELSE IF i = 9 THEN caps
    ELSE rxCapture(match, i + 1, CaptureField(caps, i, match[i + 1]))

\* Evaluate with the submatches captured whatever the mode of the transaction
rxEvaluate_AlwaysCaptures(capturing, match, caps) ==
    IF Len(match) = 0 THEN [result |-> FALSE, caps |-> caps]
    ELSE [result |-> TRUE, caps |-> rxCapture(match, 0, caps)]

\* rx.Evaluate; match is o.re.FindStringSubmatch(value), and MatchString(value)
\* holds exactly when that is not empty
rxEvaluate(capturing, match, caps) ==
    IF capturing
    THEN IF Len(match) = 0 THEN [result |-> FALSE, caps |-> caps]
         ELSE [result |-> TRUE, caps |-> rxCapture(match, 0, caps)]
    ELSE [result |-> Len(match) > 0, caps |-> caps]

RECURSIVE binaryRXCapture(_, _, _)
\* binaryRX.Evaluate's loop over the submatches
binaryRXCapture(match, i, caps) ==
    IF i >= Len(match) THEN caps
    ELSE IF i = 9 THEN caps
    ELSE binaryRXCapture(match, i + 1, CaptureField(caps, i, match[i + 1]))

binaryRXEvaluate(capturing, match, caps) ==
    IF capturing
    THEN IF Len(match) = 0 THEN [result |-> FALSE, caps |-> caps]
         ELSE [result |-> TRUE, caps |-> binaryRXCapture(match, 0, caps)]
    ELSE [result |-> Len(match) > 0, caps |-> caps]

\* what FindStringSubmatch can return: no match, or g submatches; submatch i of
\* two different values differs
Submatches ==
    {<<>>} \cup { [i \in 1..g |-> <<v, i - 1>>] : g \in 1..MaxGroups, v \in {"a", "b"} }

\* the Capture State an earlier match of the transaction left
EarlierCaptures == [i \in Slots |-> <<"earlier", i>>]

InitRxEval ==
    /\ MacroIdle
    /\ EngineIdle
    /\ NamesIdle
    /\ RegistryIdle
    /\ IncludeIdle
    /\ SharedIdle
    /\ DenyIdle
    /\ RxNewIdle
    /\ rxEngine \in {"rx", "binaryRX"}
    /\ txCapturing \in BOOLEAN
    /\ captures \in {NoCaptures, EarlierCaptures}
    /\ capturesBefore = captures
    /\ rxMatch = <<>>
    /\ rxResult = FALSE
    /\ rxCalls = 0

Evaluate ==
    /\ rxCalls < MaxEvals
    /\ \E m \in Submatches :
         LET out == IF rxEngine = "rx" THEN rxEvaluate(txCapturing, m, captures)
                    ELSE binaryRXEvaluate(txCapturing, m, captures)
         IN /\ rxMatch' = m
            /\ rxResult' = out.result
            /\ captures' = out.caps
    /\ capturesBefore' = captures
    /\ rxCalls' = rxCalls + 1
    /\ UNCHANGED <<rxEngine, txCapturing, notRxEval>>

NextRxEval == Evaluate

SpecRxEval == InitRxEval /\ [][NextRxEval]_vars

(***************************************************************************)
(* The macro expander (package macro)                                      *)
(***************************************************************************)
LowerLetters == <<"a", "b", "c", "d", "e", "f", "g", "h", "i", "j", "k", "l", "m", "n", "o", "p", "q", "r", "s", "t", "u", "v", "w", "x", "y", "z">>
UpperLetters == <<"A", "B", "C", "D", "E", "F", "G", "H", "I", "J", "K", "L", "M", "N", "O", "P", "Q", "R", "S", "T", "U", "V", "W", "X", "Y", "Z">>
Digits == {"0", "1", "2", "3", "4", "5", "6", "7", "8", "9"}

Range(f) == { f[i] : i \in DOMAIN f }

isValidMacroChar(c) ==
    \/ c = "[" \/ c = "]" \/ c = "." \/ c = "_" \/ c = "-"
    \/ c \in Digits
    \/ c \in Range(UpperLetters)
    \/ c \in Range(LowerLetters)

\* strings.ToLower and strings.ToUpper, character by character
ToLowerChar(c) ==
    IF c \in Range(UpperLetters)
    THEN LowerLetters[CHOOSE i \in DOMAIN UpperLetters : UpperLetters[i] = c]
    ELSE c
ToUpperChar(c) ==
    IF c \in Range(LowerLetters)
    THEN UpperLetters[CHOOSE i \in DOMAIN LowerLetters : LowerLetters[i] = c]
    ELSE c
ToLower(str) == [i \in 1..Len(str) |-> ToLowerChar(str[i])]
ToUpper(str) == [i \in 1..Len(str) |-> ToUpperChar(str[i])]

\* strings.Cut(str, "."): the text before and after the first "."
Cut(str) ==
    IF \E i \in 1..Len(str) : str[i] = "."
    THEN LET k == CHOOSE i \in 1..Len(str) : str[i] = "." /\ \A j \in 1..(i - 1) : str[j] # "."
         IN [before |-> SubSeq(str, 1, k - 1), after |-> SubSeq(str, k + 1, Len(str))]
    ELSE [before |-> str, after |-> <<>>]

\* variables.Parse: the rule variables the model knows, by upper-case name, and
\* the kind of collection tx.Collection returns for each
VarTX == <<"T", "X">>
VarRemoteAddr == <<"R", "E", "M", "O", "T", "E", "_", "A", "D", "D", "R">>
VarArgsCombinedSize == <<"A", "R", "G", "S", "_", "C", "O", "M", "B", "I", "N", "E", "D", "_", "S", "I", "Z", "E">>
KnownVariables == {VarTX, VarRemoteAddr, VarArgsCombinedSize}
UnknownVariable == <<>>
Parse(name) == IF ToUpper(name) \in KnownVariables THEN ToUpper(name) ELSE <<"?">>
ParseFails(name) == ToUpper(name) \notin KnownVariables

LiteralToken(text) == [text |-> text, variable |-> UnknownVariable, key |-> <<>>]

RECURSIVE compileFrom(_, _, _, _, _)
\* the loop of macro.compile at (1-based) position i, with the builder
\* currentToken, the flag isMacro and the tokens appended so far
compileFrom(input, i, currentToken, isMacro, tokens) ==
    LET l == Len(input)
        flushed == IF Len(currentToken) > 0
                   THEN Append(tokens, LiteralToken(currentToken))
                   ELSE tokens
    IN IF i > l THEN [err |-> "", original |-> input, tokens |-> flushed]
       ELSE LET c == input[i]
            IN IF c = "%" /\ i + 1 <= l /\ input[i + 1] = "{"
               THEN compileFrom(input, i + 2, <<>>, TRUE, flushed)
               ELSE IF isMacro
               THEN IF c = "}"
                    THEN IF input[i - 1] = "."
                         THEN [err |-> "empty variable name", original |-> input, tokens |-> tokens]
                         ELSE LET cut == Cut(currentToken)
                              IN IF ParseFails(cut.before)
                                 THEN [err |-> "unknown variable", original |-> input,
                                       tokens |-> tokens]
                                 ELSE compileFrom(input, i + 1, <<>>, FALSE,
                                        Append(tokens, [text |-> currentToken,
                                                        variable |-> Parse(cut.before),
                                                        key |-> ToLower(cut.after)]))
                    ELSE IF ~isValidMacroChar(c)
                         THEN [err |-> "malformed variable", original |-> input, tokens |-> tokens]
                    ELSE IF i = l
                         THEN [err |-> "malformed variable: no closing braces",
                               original |-> input, tokens |-> tokens]
                    ELSE compileFrom(input, i + 1, Append(currentToken, c), TRUE, tokens)
               ELSE compileFrom(input, i + 1, Append(currentToken, c), FALSE, tokens)

compile(input) ==
    IF Len(input) = 0 THEN [err |-> "empty macro", original |-> <<>>, tokens |-> <<>>]
    ELSE compileFrom(input, 1, <<>>, FALSE, <<>>)

newMacro(data) ==
    IF Len(data) = 0 THEN [err |-> "empty data", original |-> <<>>, tokens |-> <<>>]
    ELSE compile(data)

\* Map.Get(key): the values stored under the key, compared without case
MapGet(col, key) ==
    IF \E e \in Range(col) : e.key = ToLower(key)
    THEN (CHOOSE e \in Range(col) : e.key = ToLower(key)).values
    ELSE <<>>

\* the single-valued and the plain collections of the transaction
RemoteAddrValue == <<"1", "0", ".", "0", ".", "0", ".", "1">>
ArgsCombinedSizeAll == <<<<"4", "2">>>>

\* expandToken: the string, and whether the key-not-found diagnostic was logged
expandToken(tx, token) ==
    IF token.variable = UnknownVariable THEN [str |-> token.text, warn |-> FALSE]
    ELSE IF token.variable = VarTX /\ Len(MapGet(tx, token.key)) > 0
         THEN [str |-> MapGet(tx, token.key)[1], warn |-> FALSE]
    ELSE IF token.variable = VarRemoteAddr
         THEN [str |-> RemoteAddrValue, warn |-> FALSE]
    ELSE IF token.variable = VarArgsCombinedSize /\ Len(ArgsCombinedSizeAll) > 0
         THEN [str |-> ArgsCombinedSizeAll[1], warn |-> FALSE]
    ELSE [str |-> token.text, warn |-> TRUE]

RECURSIVE expandTokens(_, _, _)
expandTokens(tx, tokens, k) ==
    IF k > Len(tokens) THEN <<>>
    ELSE expandToken(tx, tokens[k]).str \o expandTokens(tx, tokens, k + 1)

\* macro.Expand
Expand(m, tx) ==
    IF Len(m.tokens) = 1 THEN expandToken(tx, m.tokens[1]).str
    ELSE expandTokens(tx, m.tokens, 1)

\* the diagnostics one Expand logs: one per token whose key was not found
ExpandWarnings(m, tx) ==
    SelectSeq([k \in 1..Len(m.tokens) |->
                  [variable |-> m.tokens[k].variable, key |-> m.tokens[k].key,
                   warn |-> expandToken(tx, m.tokens[k]).warn]],
              LAMBDA w : w.warn)

\* the pieces templates are put together from
Pieces ==
    { <<"%", "{">>, <<"}">>, <<".">>, <<"%">>, <<"t", "x">>, <<"A">>,
      <<"t", "x", ".", "A">>,
      <<"r", "e", "m", "o", "t", "e", "_", "a", "d", "d", "r">>, <<"a", "r", "g", "s", "_", "c", "o", "m", "b", "i", "n", "e", "d", "_", "s", "i", "z", "e">> }

RECURSIVE TemplatesOf(_)
TemplatesOf(n) ==
    IF n = 0 THEN {<<>>}
    ELSE LET shorter == TemplatesOf(n - 1)
         IN shorter \cup { t \o q : t \in shorter, q \in Pieces }

\* "prefix %{tx.foo} suffix"
PrefixFooSuffix == <<"p", "r", "e", "f", "i", "x", " ", "%", "{", "t", "x", ".", "f", "o", "o", "}", " ", "s", "u", "f", "f", "i", "x">>
\* "prefix bar suffix"
PrefixBarSuffix == <<"p", "r", "e", "f", "i", "x", " ", "b", "a", "r", " ", "s", "u", "f", "f", "i", "x">>

Templates == TemplatesOf(MaxPieces) \cup {PrefixFooSuffix}

\* the TX collections of the transactions: empty, tx.foo = bar, tx.a = v, w
TxCollections ==
    { <<>>,
      << [key |-> <<"f", "o", "o">>, values |-> <<<<"b", "a", "r">>>>] >>,
      << [key |-> <<"a">>, values |-> << <<"v">>, <<"w">> >>] >> }

InitMacro ==
    /\ EngineIdle
    /\ NamesIdle
    /\ RegistryIdle
    /\ IncludeIdle
    /\ SharedIdle
    /\ DenyIdle
    /\ RxNewIdle
    /\ RxEvalIdle
    /\ template \in Templates
    /\ macro = NoMacro
    /\ txTX \in TxCollections
    /\ expanded = <<>>
    /\ warnings = <<>>
    /\ expandCalls = 0

NewMacro ==
    /\ macro = NoMacro
    /\ macro' = newMacro(template)
    /\ UNCHANGED <<template, txTX, expanded, warnings, expandCalls, notMacro>>

MacroExpand ==
    /\ macro.err = ""
    /\ expandCalls < MaxExpands
    /\ expanded' = Expand(macro, txTX)
    /\ warnings' = warnings \o ExpandWarnings(macro, txTX)
    /\ expandCalls' = expandCalls + 1
    /\ UNCHANGED <<template, macro, txTX, notMacro>>

NextMacro ==
    \/ NewMacro
    \/ MacroExpand

SpecMacro == InitMacro /\ [][NextMacro]_vars

(***************************************************************************)
(* One compiled macro expanded by several transactions at once             *)
(***************************************************************************)
\* the transactions that share the macro, and the parts its template is made of
Transactions == {1, 2}

SharedParts ==
    { <<"%", "{", "t", "x", ".", "f", "o", "o", "}">>,
      <<"%", "{", "t", "x", ".", "a", "}">>,
      <<"%", "{", "r", "e", "m", "o", "t", "e", "_", "a", "d", "d", "r", "}">>,
      <<" ", "-", " ">> }

RECURSIVE SharedTemplatesOf(_)
SharedTemplatesOf(n) ==
    IF n = 1 THEN SharedParts
    ELSE LET shorter == SharedTemplatesOf(n - 1)
         IN shorter \cup { t \o q : t \in shorter, q \in SharedParts }

\* the builder a call writes to, with every call using the one builder
builderOf_Shared(t) == 1
\* res := strings.Builder{}: the builder a call writes to is its own
builderOf(t) == t

InitShared ==
    /\ EngineIdle
    /\ NamesIdle
    /\ RegistryIdle
    /\ IncludeIdle
    /\ DenyIdle
    /\ RxNewIdle
    /\ RxEvalIdle
    /\ MacroIdle
    /\ \E t \in SharedTemplatesOf(MaxParts) : shMacro = newMacro(t)
    /\ shTx \in [Transactions -> TxCollections]
    /\ shPos = [t \in Transactions |-> 0]
    /\ shBuilder = [t \in Transactions |-> <<>>]
    /\ shReturned = [t \in Transactions |-> <<>>]
    /\ shWarned = [t \in Transactions |-> 0]
    /\ shCalls = [t \in Transactions |-> 0]

\* Expand is entered: a macro of one token returns at once, any other starts
\* an empty builder
ExpandBegin(t) ==
    /\ shPos[t] = 0
    /\ shCalls[t] < MaxExpands
    /\ IF Len(shMacro.tokens) = 1
       THEN LET out == expandToken(shTx[t], shMacro.tokens[1])
            IN /\ shReturned' = [shReturned EXCEPT ![t] = out.str]
               /\ shWarned' = [shWarned EXCEPT ![t] = @ + (IF out.warn THEN 1 ELSE 0)]
               /\ shCalls' = [shCalls EXCEPT ![t] = @ + 1]
               /\ UNCHANGED <<shPos, shBuilder>>
       ELSE /\ shBuilder' = [shBuilder EXCEPT ![builderOf(t)] = <<>>]
            /\ shPos' = [shPos EXCEPT ![t] = 1]
            /\ UNCHANGED <<shReturned, shWarned, shCalls>>
    /\ UNCHANGED <<shMacro, shTx, notShared>>

\* one turn of the loop: res.WriteString(expandToken(tx, token))
ExpandWrite(t) ==
    /\ shPos[t] \in 1..Len(shMacro.tokens)
    /\ LET out == expandToken(shTx[t], shMacro.tokens[shPos[t]])
       IN /\ shBuilder' = [shBuilder EXCEPT ![builderOf(t)] = @ \o out.str]
          /\ shWarned' = [shWarned EXCEPT ![t] = @ + (IF out.warn THEN 1 ELSE 0)]
    /\ shPos' = [shPos EXCEPT ![t] = @ + 1]
    /\ UNCHANGED <<shMacro, shTx, shReturned, shCalls, notShared>>

\* return res.String()
ExpandReturn(t) ==
    /\ shPos[t] = Len(shMacro.tokens) + 1
    /\ shReturned' = [shReturned EXCEPT ![t] = shBuilder[builderOf(t)]]
    /\ shPos' = [shPos EXCEPT ![t] = 0]
    /\ shCalls' = [shCalls EXCEPT ![t] = @ + 1]
    /\ UNCHANGED <<shMacro, shTx, shBuilder, shWarned, notShared>>

NextShared ==
    \E t \in Transactions :
        \/ ExpandBegin(t)
        \/ ExpandWrite(t)
        \/ ExpandReturn(t)

SpecShared == InitShared /\ [][NextShared]_vars

(***************************************************************************)
(* The directive parser: Include and its recursion limit                   *)
(***************************************************************************)
maxIncludeRecursion == 100

\* the directives of a file: a rule, or Include of a file
RuleDirective == [op |-> "SecAction", arg |-> ""]
IncludeOf(f) == [op |-> "Include", arg |-> f]

FileNames == {"A", "B"}
Directives == {RuleDirective} \cup { IncludeOf(f) : f \in FileNames }

RECURSIVE FilesOf(_)
\* the files of at most n directives
FilesOf(n) ==
    IF n = 0 THEN {<<>>}
    ELSE LET shorter == FilesOf(n - 1)
         IN shorter \cup { Append(f, d) : f \in shorter, d \in Directives }

\* rand1.conf holds maxIncludeRecursion+1 Include lines of rand2.conf, which is empty
FanOutOverLimit ==
    [f \in FileNames |->
        IF f = "A" THEN [i \in 1..(maxIncludeRecursion + 1) |-> IncludeOf("B")] ELSE <<>>]
\* the same with maxIncludeRecursion Include lines
FanOutAtLimit ==
    [f \in FileNames |->
        IF f = "A" THEN [i \in 1..maxIncludeRecursion |-> IncludeOf("B")] ELSE <<>>]
\* Include of a literal path that does not exist
IncludeUnknown ==
    [f \in FileNames |-> IF f = "A" THEN <<RuleDirective, IncludeOf("unknown")>> ELSE <<>>]

IncludeGraphs ==
    [FileNames -> FilesOf(MaxLines)] \cup {FanOutOverLimit, FanOutAtLimit, IncludeUnknown}

\* the parser expands whatever the number of Include directives before
includeAllowed_Unlimited(count) == TRUE
\* the parser expands an Include only below the limit
includeAllowed(count) == count < maxIncludeRecursion

InitInclude ==
    /\ EngineIdle
    /\ NamesIdle
    /\ RegistryIdle
    /\ SharedIdle
    /\ DenyIdle
    /\ RxNewIdle
    /\ RxEvalIdle
    /\ MacroIdle
    /\ incFiles \in IncludeGraphs
    /\ incStack = <<>>
    /\ incCount = 0
    /\ incStatus = "idle"

Top == incStack[Len(incStack)]
AtDirective ==
    /\ incStatus = "parsing"
    /\ Top.line <= Len(incFiles[Top.file])
CurrentDirective == incFiles[Top.file][Top.line]
Advanced == [incStack EXCEPT ![Len(incStack)].line = @ + 1]

\* p.FromFile(rand1.conf)
FromFile ==
    /\ incStatus = "idle"
    /\ incStack' = <<[file |-> "A", line |-> 1]>>
    /\ incStatus' = "parsing"
    /\ UNCHANGED <<incFiles, incCount, notInclude>>

\* a line that is no Include
ParseDirective ==
    /\ AtDirective
    /\ CurrentDirective.op # "Include"
    /\ incStack' = Advanced
    /\ UNCHANGED <<incFiles, incCount, incStatus, notInclude>>

\* an Include line: the limit, the count, the lookup, then FromFile on the file
ParseInclude ==
    /\ AtDirective
    /\ CurrentDirective.op = "Include"
    /\ IF ~includeAllowed(incCount)
       THEN /\ incStatus' = "recursion limit"
            /\ UNCHANGED <<incStack, incCount>>
       ELSE /\ incCount' = incCount + 1
            /\ IF CurrentDirective.arg \notin DOMAIN incFiles
               THEN /\ incStatus' = "not found"
                    /\ UNCHANGED incStack
               ELSE /\ incStack' = Append(Advanced, [file |-> CurrentDirective.arg, line |-> 1])
                    /\ UNCHANGED incStatus
    /\ UNCHANGED <<incFiles, notInclude>>

\* the end of a file: FromFile returns to the Include that called it
EndOfFile ==
    /\ incStatus = "parsing"
    /\ Top.line > Len(incFiles[Top.file])
    /\ incStack' = SubSeq(incStack, 1, Len(incStack) - 1)
    /\ incStatus' = IF Len(incStack) = 1 THEN "ok" ELSE "parsing"
    /\ UNCHANGED <<incFiles, incCount, notInclude>>

NextInclude ==
    \/ FromFile
    \/ ParseDirective
    \/ ParseInclude
    \/ EndOfFile

SpecInclude == InitInclude /\ [][NextInclude]_vars

\* the parser runs until FromFile returns
SpecIncludeFair == SpecInclude /\ WF_vars(NextInclude)

(***************************************************************************)
(* The operator registry (package operators, package plugins)              *)
(***************************************************************************)
OperatorNames == {"rx", "custom_operator", "inspectFile"}
OperatorFactories == {"newRX", "newInspectFile", "operator", "operator2"}

\* operators.Register: the name maps to the factory from now on
Register(reg, name, op) ==
    [n \in DOMAIN reg \cup {name} |-> IF n = name THEN op ELSE reg[n]]

\* operators.Get: the factory registered under the name, or an error
Get(reg, name) ==
    IF name \in DOMAIN reg
    THEN [call |-> "Get", name |-> name, factory |-> reg[name], err |-> ""]
    ELSE [call |-> "Get", name |-> name, factory |-> "", err |-> "unknown operator"]

\* a registration that leaves a name that is taken as it is
RegisterOperator_KeepsFirst(reg, name, op) ==
    IF name \in DOMAIN reg THEN reg ELSE Register(reg, name, op)
\* plugins.RegisterOperator
RegisterOperator(reg, name, op) == Register(reg, name, op)

\* the registry after the init functions: rx, and inspectFile in a tinygo build
InitRegistry ==
    /\ EngineIdle
    /\ NamesIdle
    /\ SharedIdle
    /\ IncludeIdle
    /\ DenyIdle
    /\ RxNewIdle
    /\ RxEvalIdle
    /\ MacroIdle
    /\ \E tinygo \in BOOLEAN :
         operators = IF tinygo
                     THEN Register(Register(<<>>, "rx", "newRX"), "inspectFile", "newInspectFile")
                     ELSE Register(<<>>, "rx", "newRX")
    /\ opLatest = operators
    /\ opLast = [call |-> "none", name |-> "", factory |-> "", err |-> ""]
    /\ opCalls = 0

PluginRegisterOperator ==
    /\ opCalls < MaxRegisters
    /\ \E name \in OperatorNames, op \in OperatorFactories :
         /\ operators' = RegisterOperator(operators, name, op)
         /\ opLatest' = [n \in DOMAIN opLatest \cup {name} |-> IF n = name THEN op ELSE opLatest[n]]
         /\ opLast' = [call |-> "Register", name |-> name, factory |-> op, err |-> ""]
    /\ opCalls' = opCalls + 1
    /\ UNCHANGED notRegistry

OperatorsGet ==
    /\ \E name \in OperatorNames : opLast' = Get(operators, name)
    /\ UNCHANGED <<operators, opLatest, opCalls, notRegistry>>

NextRegistry ==
    \/ PluginRegisterOperator
    \/ OperatorsGet

SpecRegistry == InitRegistry /\ [][NextRegistry]_vars

(***************************************************************************)
(* The Named Collection and its names view (package collections)           *)
(***************************************************************************)
\* the keys and values handed to Add, and the variable of the names view
NameKeys == {<<"a">>, <<"A">>, <<"b">>, <<"c">>}
NameValues == {<<"1">>, <<"2">>}
ViewVariable == "ARGS_NAMES"

\* the keys a regular expression matches: ^a$, ^A$, ^[ab]$, ^[bc]$ and .
KeyPatterns ==
    { {<<"a">>}, {<<"A">>}, {<<"a">>, <<"b">>}, {<<"b">>, <<"c">>}, NameKeys }

\* Map.Add of a map that compares keys without case: the entry goes under the
\* lower-case key and keeps the key as it was given
MapAdd(data, key, value) ==
    LET k == ToLower(key)
        entry == [key |-> key, value |-> value]
    IN [n \in DOMAIN data \cup {k} |->
           IF n = k THEN (IF k \in DOMAIN data THEN Append(data[k], entry) ELSE <<entry>>)
           ELSE data[n]]

\* the orders in which a range over a Go map can visit the keys
Orders(keys) ==
    { ord \in [1..Cardinality(keys) -> keys] : \A i, j \in DOMAIN ord : ord[i] = ord[j] => i = j }

\* a record that carries the stored value
nameRecord_StoredValue(variable, d) == [Variable |-> variable, Key |-> d.key, Value |-> d.value]
\* the MatchData the names view builds for one entry
nameRecord(variable, d) == [Variable |-> variable, Key |-> d.key, Value |-> d.key]

RECURSIVE namesIn(_, _, _, _)
\* the loops of FindAll, FindRegex and FindString: the keys visited in the
\* order ord, those outside sel skipped, one record per entry
namesIn(variable, data, ord, sel) ==
    IF Len(ord) = 0 THEN <<>>
    ELSE (IF Head(ord) \in sel
          THEN [i \in 1..Len(data[Head(ord)]) |-> nameRecord(variable, data[Head(ord)][i])]
          ELSE <<>>) \o namesIn(variable, data, Tail(ord), sel)

InitNames ==
    /\ EngineIdle
    /\ RegistryIdle
    /\ IncludeIdle
    /\ SharedIdle
    /\ DenyIdle
    /\ RxNewIdle
    /\ RxEvalIdle
    /\ MacroIdle
    /\ ncData = <<>>
    /\ ncOrder = <<>>
    /\ ncLast = [call |-> "none", keys |-> {}, found |-> <<>>]
    /\ ncAdds = 0

NamedCollectionAdd ==
    /\ ncAdds < MaxAdds
    /\ \E key \in NameKeys, value \in NameValues :
         /\ ncData' = MapAdd(ncData, key, value)
         /\ ncOrder' = IF ToLower(key) \in DOMAIN ncData THEN ncOrder
                       ELSE Append(ncOrder, ToLower(key))
    /\ ncLast' = [call |-> "Add", keys |-> {}, found |-> <<>>]
    /\ ncAdds' = ncAdds + 1
    /\ UNCHANGED notNames

FindAll ==
    /\ \E ord \in Orders(DOMAIN ncData) :
         ncLast' = [call |-> "FindAll", keys |-> DOMAIN ncData,
                    found |-> namesIn(ViewVariable, ncData, ord, DOMAIN ncData)]
    /\ UNCHANGED <<ncData, ncOrder, ncAdds, notNames>>

FindRegex ==
    /\ \E re \in KeyPatterns, ord \in Orders(DOMAIN ncData) :
         ncLast' = [call |-> "FindRegex", keys |-> re,
                    found |-> namesIn(ViewVariable, ncData, ord,
                                      { k \in DOMAIN ncData : k \in re })]
    /\ UNCHANGED <<ncData, ncOrder, ncAdds, notNames>>

FindString ==
    /\ \E key \in NameKeys, ord \in Orders(DOMAIN ncData) :
         ncLast' = [call |-> "FindString", keys |-> {key},
                    found |-> namesIn(ViewVariable, ncData, ord,
                                      { k \in DOMAIN ncData : k = key })]
    /\ UNCHANGED <<ncData, ncOrder, ncAdds, notNames>>

NextNames ==
    \/ NamedCollectionAdd
    \/ FindAll
    \/ FindRegex
    \/ FindString

SpecNames == InitNames /\ [][NextNames]_vars

(***************************************************************************)
(* Claims                                                                  *)
(***************************************************************************)
HeadPhase(ri) == rules[ri][1].Phase
ChainMatched(ri) == \A l \in 1..Len(rules[ri]) : rules[ri][l].matches

\* C1: once an Interruption is present, every link evaluated afterwards belongs
\* to a rule of the logging phase (so no later rule of the current phase and no
\* rule of a later phase 1-4 is evaluated); once the logging phase has run, every
\* rule of phase 5 was evaluated, interruption or not; and phase 1 of a fresh
\* transaction over the single rule SecAction "id:1,deny,log,phase:1" leaves a
\* non-empty Interruption.
C1_InterruptionShortCircuits ==
    /\ interruption # NoInterruption =>
          \A j \in (intrAt + 1)..Len(evaluated) : HeadPhase(evaluated[j][1]) = PhaseLogging
    /\ lastPhase = PhaseLogging =>
          \A i \in 1..Len(rules) :
              HeadPhase(i) = PhaseLogging => \E j \in 1..Len(evaluated) : evaluated[j] = <<i, 1>>
    /\ (rules = TestInterruptionRules /\ lastPhase >= 1) => interruption # NoInterruption

\* an interrupting rule, a later rule of phases 1-4 that was skipped and a rule of
\* phase 5 that was evaluated after the interruption
C1_Witness ==
    /\ interruption # NoInterruption
    /\ lastPhase = PhaseLogging
    /\ intrAt >= 1
    /\ Len(evaluated) > intrAt
    /\ \E i \in 1..Len(rules) :
          /\ i > evaluated[intrAt][1]
          /\ HeadPhase(i) < PhaseLogging
          /\ rules[i][1].matches
          /\ \A j \in 1..Len(evaluated) : evaluated[j][1] # i

\* C2: every Interruption created by deny has Action "deny" and the rule's status,
\* or 403 when the rule's status is 0; SecAction "id:1,deny,log,phase:1" evaluated
\* in phase 1 yields status 403 and rule ID 1.
C2_DenyStatus ==
    /\ \A k \in 1..Len(fired) :
          /\ fired[k].intr.Action = "deny"
          /\ fired[k].rule.Status # 0 => fired[k].intr.Status = fired[k].rule.Status
          /\ fired[k].rule.Status = 0 => fired[k].intr.Status = 403
    /\ (rules = TestInterruptionRules /\ lastPhase >= 1) =>
          interruption = [Status |-> 403, RuleID |-> 1, Action |-> "deny"]

\* deny ran for a rule without a status and for a rule with status 500
C2_Witness ==
    /\ \E k \in 1..Len(fired) : fired[k].rule.Status = 0 /\ fired[k].intr.Status = 403
    /\ \E k \in 1..Len(fired) : fired[k].rule.Status = 500 /\ fired[k].intr.Status = 500

\* C3: the RuleID of the Interruption created by deny is the rule's own ID when
\* that is non-zero and the parent's ID when the own ID is 0.
C3_DenyRuleID ==
    denyDone =>
        /\ denyRule.ID # 0 => denyCreated.RuleID = denyRule.ID
        /\ denyRule.ID = 0 => denyCreated.RuleID = denyRule.ParentID

\* deny ran for a rule with an ID of its own and a different parent ID
C3_Witness ==
    /\ denyDone
    /\ denyRule.ID # 0
    /\ denyRule.ParentID # 0
    /\ denyRule.ParentID # denyRule.ID
    /\ denyCreated.RuleID = denyRule.ID

Min(a, b) == IF a < b THEN a ELSE b

\* C6: in capturing mode a match with g submatches makes Evaluate, of either
\* engine, write slot i = submatch i for exactly 0 <= i < min(g, 9) and leave every
\* other slot, slot 9 included, as it was before the call.
C6_CaptureFrame ==
    (rxCalls > 0 /\ txCapturing /\ Len(rxMatch) > 0) =>
        /\ rxResult
        /\ \A i \in Slots :
              IF i < Min(Len(rxMatch), 9)
              THEN captures[i] = rxMatch[i + 1]
              ELSE captures[i] = capturesBefore[i]

\* a match with 11 submatches on the binary engine: slot 8 written, slot 9 kept
C6_Witness ==
    /\ rxCalls > 0
    /\ txCapturing
    /\ rxEngine = "binaryRX"
    /\ Len(rxMatch) = 11
    /\ captures[0] = rxMatch[1]
    /\ captures[8] = rxMatch[9]
    /\ captures[9] = capturesBefore[9]
    /\ captures[9] # rxMatch[10]

\* a match with 11 submatches on the text engine, over slots an earlier match filled
C6_WitnessText ==
    /\ rxCalls > 0
    /\ txCapturing
    /\ rxEngine = "rx"
    /\ Len(rxMatch) = 11
    /\ capturesBefore = EarlierCaptures
    /\ captures[8] = rxMatch[9]
    /\ captures[9] = EarlierCaptures[9]

RECURSIVE byteEscapesDecoded(_, _)
\* the pattern text with its \xHH byte escapes decoded, read as a regular
\* expression reads it: a backslash escapes the byte after it, so \\ is an escaped
\* backslash and the x after it is no escape
byteEscapesDecoded(expr, i) ==
    IF i > Len(expr) THEN <<>>
    ELSE IF expr[i] # Backslash THEN <<expr[i]>> \o byteEscapesDecoded(expr, i + 1)
    ELSE IF i = Len(expr) THEN <<expr[i]>>
    ELSE IF /\ expr[i + 1] = LetterX
            /\ i + 3 <= Len(expr)
            /\ unhex(expr[i + 2]) >= 0
            /\ unhex(expr[i + 3]) >= 0
         THEN <<unhex(expr[i + 2]) * 16 + unhex(expr[i + 3])>> \o byteEscapesDecoded(expr, i + 4)
    ELSE <<expr[i], expr[i + 1]>> \o byteEscapesDecoded(expr, i + 2)

\* C7: the compiled operator uses the binary-safe engine if and only if the
\* pattern text with its \xHH byte escapes decoded is not valid UTF-8; text that
\* is not a byte escape (an escaped backslash followed by xFF) does not select it.
C7_BinaryIffInvalidUTF8 ==
    rxOp # NoOperator =>
        (rxOp.engine = "binaryRX" <=> ~utf8Valid(byteEscapesDecoded(rxArgs, 1), 1))

\* C8: in the default mode the compiled pattern is the argument wrapped with the
\* dot-matches-newline + multiline modifier, whichever engine is used.
C8_AlwaysWrapped ==
    (rxOp # NoOperator /\ ~rxNoMultiline) => rxOp.pattern = PrefixDotAllMultiline \o rxArgs

\* the template opens a reference with %{ and no } follows before the end
Unterminated(t) ==
    \E i \in 1..(Len(t) - 1) :
        /\ t[i] = "%"
        /\ t[i + 1] = "{"
        /\ \A j \in (i + 2)..Len(t) : t[j] # "}"

\* the template is one reference, %{tx.key}, and nothing else
IsOneTXReference(t) ==
    /\ Len(t) > 6
    /\ SubSeq(t, 1, 5) = <<"%", "{", "t", "x", ".">>
    /\ t[Len(t)] = "}"
    /\ \A j \in 6..(Len(t) - 1) : t[j] \in Range(LowerLetters) \cup Range(UpperLetters)

\* C9: a reference whose key is absent from the TX collection expands to the
\* reference as written, %{ and } included: "prefix %{tx.foo} suffix" expands to
\* itself when tx.foo is unset and to "prefix bar suffix" when tx.foo is "bar",
\* and a template that is one such reference expands to itself.
C9_AbsentKeyKeepsReference ==
    expandCalls > 0 =>
        /\ (template = PrefixFooSuffix /\ MapGet(txTX, <<"f", "o", "o">>) = <<>>) =>
              expanded = PrefixFooSuffix
        /\ (template = PrefixFooSuffix /\ MapGet(txTX, <<"f", "o", "o">>) # <<>>) =>
              expanded = PrefixBarSuffix
        /\ (IsOneTXReference(template)
              /\ MapGet(txTX, SubSeq(template, 6, Len(template) - 1)) = <<>>) =>
              expanded = template

\* C10: NewMacro fails for every template that opens a reference with %{ and has
\* no } after it, a template that ends right after %{ included.
C10_UnterminatedFails ==
    (macro # NoMacro /\ Unterminated(template)) => macro.err # ""

\* a character that is not allowed in a reference stands between a %{ and the
\* first } after it
DisallowedInReference(t) ==
    \E i \in 1..(Len(t) - 1), j \in 1..Len(t) :
        /\ t[i] = "%"
        /\ t[i + 1] = "{"
        /\ j >= i + 2
        /\ t[j] = "}"
        /\ \A k \in (i + 2)..(j - 1) : t[k] # "}"
        /\ \E k \in (i + 2)..(j - 1) : ~isValidMacroChar(t[k])

RECURSIVE OutsideText(_, _)
\* the characters of the template from position i on that stand outside every
\* reference, a reference reaching from its %{ to the first } after it (or to
\* the end of the template when no } follows)
OutsideText(t, i) ==
    IF i > Len(t) THEN <<>>
    ELSE IF t[i] = "%" /\ i + 1 <= Len(t) /\ t[i + 1] = "{"
         THEN IF \E j \in (i + 2)..Len(t) : t[j] = "}"
              THEN OutsideText(t, 1 + CHOOSE j \in (i + 2)..Len(t) :
                                        t[j] = "}" /\ \A k \in (i + 2)..(j - 1) : t[k] # "}")
              ELSE <<>>
         ELSE <<t[i]>> \o OutsideText(t, i + 1)

RECURSIVE LiteralText(_, _)
\* the texts of the literal tokens from token k on, joined
LiteralText(tokens, k) ==
    IF k > Len(tokens) THEN <<>>
    ELSE (IF tokens[k].variable = UnknownVariable THEN tokens[k].text ELSE <<>>)
             \o LiteralText(tokens, k + 1)

\* C11: NewMacro fails whenever a character that is not allowed in a reference
\* (a % of a second %{ included) stands between a %{ and its closing }; a macro
\* that compiled has no reference token with such a character in its text and
\* its literal tokens hold only text from outside the references.
C11_DisallowedCharFails ==
    macro # NoMacro =>
        /\ DisallowedInReference(template) => macro.err # ""
        /\ macro.err = "" =>
              /\ \A k \in 1..Len(macro.tokens) :
                    macro.tokens[k].variable # UnknownVariable =>
                        \A n \in 1..Len(macro.tokens[k].text) :
                            isValidMacroChar(macro.tokens[k].text[n])
              /\ LiteralText(macro.tokens, 1) = OutsideText(template, 1)

\* C12: Expand leaves the shared macro and every transaction's collection as
\* they were, and whatever the interleaving of the calls, each call returns
\* the string the same call returns when it runs alone on its transaction.
C12_ExpandIsolated ==
    /\ [](\A t \in Transactions : shCalls[t] > 0 => shReturned[t] = Expand(shMacro, shTx[t]))
    /\ [][shMacro' = shMacro /\ shTx' = shTx]_vars

\* two transactions with different collections are inside Expand of a macro
\* of several tokens at the same time, and one has already returned once
C12_Witness ==
    /\ Len(shMacro.tokens) > 1
    /\ shTx[1] # shTx[2]
    /\ Expand(shMacro, shTx[1]) # Expand(shMacro, shTx[2])
    /\ shPos[1] > 1
    /\ shPos[2] > 1
    /\ shCalls[2] > 0

\* C17: what Evaluate returns, on either engine, is whether the value matches
\* the pattern, in capturing mode and out of it alike; when the transaction is
\* not capturing, or the value does not match, no capture slot is written.
C17_ResultIgnoresCapturing ==
    rxCalls > 0 =>
        /\ rxResult = (Len(rxMatch) > 0)
        /\ (~txCapturing \/ Len(rxMatch) = 0) => captures = capturesBefore

\* a match with several submatches on a transaction that is not capturing:
\* Evaluate returns true and the slots an earlier match filled are as they were
C17_Witness ==
    /\ rxCalls > 0
    /\ ~txCapturing
    /\ rxEngine = "rx"
    /\ Len(rxMatch) > 1
    /\ rxResult
    /\ capturesBefore = EarlierCaptures
    /\ captures = EarlierCaptures

\* the file the parse starts from holds an Include of itself
SelfIncluding == \E i \in 1..Len(incFiles["A"]) : incFiles["A"][i] = IncludeOf("A")

\* C13: for every include graph the parse comes to an end; the parser never
\* performs more than maxIncludeRecursion Include expansions, the Include that
\* would be one more fails the parse at once, and the parse of a file that
\* includes itself, or that holds maxIncludeRecursion+1 Include lines of an
\* empty file, ends with the recursion-limit error.
C13_IncludeBounded ==
    /\ [](incCount <= maxIncludeRecursion)
    /\ []((incStatus \notin {"idle", "parsing"} /\ (SelfIncluding \/ incFiles = FanOutOverLimit))
             => incStatus = "recursion limit")
    /\ [][(AtDirective /\ CurrentDirective.op = "Include" /\ incCount = maxIncludeRecursion)
             => incStatus' = "recursion limit"]_vars
    /\ <>(incStatus \notin {"idle", "parsing"})

\* the Include line number maxIncludeRecursion+1 of the fan-out file has failed
\* the parse, after maxIncludeRecursion expansions that all returned
C13_Witness ==
    /\ incFiles = FanOutOverLimit
    /\ incStatus = "recursion limit"
    /\ incCount = maxIncludeRecursion
    /\ Len(incStack) = 1
    /\ Top.line = maxIncludeRecursion + 1

\* C14: after any sequence of Register calls, Get of a name that was
\* registered succeeds with the factory of the most recent Register call for
\* that name, Register of a name that is taken is no error, and Get of a name
\* that was never registered fails with the unknown-operator error.
C14_LastRegistrationWins ==
    /\ opLast.call = "Get" =>
          IF opLast.name \in DOMAIN opLatest
          THEN opLast.err = "" /\ opLast.factory = opLatest[opLast.name]
          ELSE opLast.err = "unknown operator"
    /\ opLast.call = "Register" => opLast.err = ""

\* custom_operator was registered, then rx was registered over the built-in
\* factory, and Get of rx returns the later factory
C14_Witness ==
    /\ opCalls >= 2
    /\ "custom_operator" \in DOMAIN opLatest
    /\ opLast.call = "Get"
    /\ opLast.name = "rx"
    /\ opLast.err = ""
    /\ opLast.factory = "operator"

\* the call before this state was a find on the names view
AfterFind == ncLast.call \in {"FindAll", "FindRegex", "FindString"}
\* the stored keys the find selected
SelectedKeys == DOMAIN ncData \cap ncLast.keys
\* how many elements of the sequence satisfy the test
CountOf(seq, Test(_)) == Cardinality({ i \in DOMAIN seq : Test(seq[i]) })

\* C15: FindAll, FindRegex and FindString on the names view return one record
\* per stored value of each selected key and none for any other key; every
\* record carries the variable of the view and has the key as it was given to
\* Add as its Key and as its Value.
C15_NamesRecords ==
    AfterFind =>
        /\ \A i \in DOMAIN ncLast.found :
              /\ ncLast.found[i].Variable = ViewVariable
              /\ ncLast.found[i].Value = ncLast.found[i].Key
              /\ ToLower(ncLast.found[i].Key) \in SelectedKeys
        /\ \A given \in NameKeys :
              ToLower(given) \in SelectedKeys =>
                  CountOf(ncLast.found, LAMBDA r : r.Key = given)
                      = CountOf(ncData[ToLower(given)], LAMBDA d : d.key = given)

\* FindRegex of ^[ab]$ after Add("A", "1"), Add("a", "2"), Add("c", "1")
C15_Witness ==
    /\ ncLast.call = "FindRegex"
    /\ ncLast.keys = {<<"a">>, <<"b">>}
    /\ DOMAIN ncData = {<<"a">>, <<"c">>}
    /\ Len(ncData[<<"a">>]) = 2
    /\ Len(ncLast.found) = 2
    /\ ncLast.found[1].Key = <<"A">>
    /\ ncLast.found[2].Key = <<"a">>

\* the place of a stored key in the order of first insertion
PlaceOf(k) == CHOOSE n \in DOMAIN ncOrder : ncOrder[n] = k

\* C16: the records FindAll and FindRegex return list the entries of a key
\* added earlier before the entries of a key added later.
C16_InsertionOrder ==
    ncLast.call \in {"FindAll", "FindRegex"} =>
        \A i, j \in DOMAIN ncLast.found :
            i < j => PlaceOf(ToLower(ncLast.found[i].Key)) <= PlaceOf(ToLower(ncLast.found[j].Key))

====
